---- MODULE Spec2Model ----
(***************************************************************************)
(* Model of seal/components/base.py: the abstract component hierarchy      *)
(* (Component, ExperimentComponent, RunComponent, HybridComponent, Logger) *)
(* together with the two Python mechanisms its behaviour rests on: the     *)
(* ABCMeta instantiation check and the isinstance dispatch of __call__.    *)
(*                                                                         *)
(* A caller defines concrete subclasses, instantiates them into a          *)
(* collection and invokes the instances on objects.  What an implementer's *)
(* hook does (the value it returns, the error it raises, the operations    *)
(* its log_run calls) is not in the file: it is an input of each invoke.   *)
(***************************************************************************)
EXTENDS Naturals, Sequences, FiniteSets

VARIABLES components, invokes, calls, outcome

vars == <<components, invokes, calls, outcome>>

\* ------------------------------------------------------------------ bounds
MaxInvokes == 2     \* invocations of a caller that only invokes
MaxDispatches == 3  \* invocations of a caller holding only dispatching components
MaxUses == 1        \* invocations of a caller that also constructs
MaxMissing == 1     \* abstract names a user subclass may leave unimplemented

\* ------------------------------------------------- objects and their types
\* The objects handed to invoke: an Experiment, a Run, an instance of a type
\* derived from both, and a plain integer.
Objects == {"exp", "run", "exprun", "int"}

NoObject == "-"

TypesOf(obj) ==
  CASE obj = "exp"    -> {"Experiment"}
    [] obj = "run"    -> {"Run"}
    [] obj = "exprun" -> {"Experiment", "Run"}
    [] OTHER          -> {}

isinstance(obj, cls) == cls \in TypesOf(obj)

\* ------------------------------------------------------ the class hierarchy
LibraryClasses ==
  {"Component", "ExperimentComponent", "RunComponent", "HybridComponent", "Logger"}

\* AbstractDefs with the decorator of Logger.__init__ forgotten.
AbstractDefsNoInit(k) ==
  CASE k = "Component"           -> {"__call__"}
    [] k = "ExperimentComponent" -> {"_call_on_experiment"}
    [] k = "RunComponent"        -> {"_call_on_run"}
    [] k = "HybridComponent"     -> {}
    [] k = "Logger"              -> {"log_experiment", "log_run",
                                     "_log_metrics", "_log_params", "_log_model"}
    [] OTHER                     -> {}

\* Names a class body defines under @abstractmethod.
AbstractDefs(k) ==
  CASE k = "Component"           -> {"__call__"}
    [] k = "ExperimentComponent" -> {"_call_on_experiment"}
    [] k = "RunComponent"        -> {"_call_on_run"}
    [] k = "HybridComponent"     -> {}
    [] k = "Logger"              -> {"__init__", "log_experiment", "log_run",
                                     "_log_metrics", "_log_params", "_log_model"}
    [] OTHER                     -> {}

\* Names a class body defines without @abstractmethod.
ConcreteDefs(k) ==
  CASE k = "ExperimentComponent" -> {"__call__"}
    [] k = "RunComponent"        -> {"__call__"}
    [] k = "HybridComponent"     -> {"__call__"}
    [] k = "Logger"              -> {"__call__"}
    [] OTHER                     -> {}

\* Method resolution order of each class of the file (the linearisation of its
\* bases; object, which defines none of the names, is left out).
MRO(k) ==
  CASE k = "Component"           -> <<"Component">>
    [] k = "ExperimentComponent" -> <<"ExperimentComponent", "Component">>
    [] k = "RunComponent"        -> <<"RunComponent", "Component">>
    [] k = "HybridComponent"     -> <<"HybridComponent", "ExperimentComponent",
                                      "RunComponent", "Component">>
    [] k = "Logger"              -> <<"Logger", "Component">>
    [] OTHER                     -> <<>>

MethodNames ==
  UNION {AbstractDefs(k) \cup ConcreteDefs(k) : k \in LibraryClasses}

User == "<subclass>"
Nowhere == "<undefined>"

\* getattr(cls, name): the first class of the resolution order defining name.
\* A user subclass [base, supplies] comes first and defines its supplies.
Resolve(cls, name) ==
  IF name \in cls.supplies THEN User
  ELSE LET mro == MRO(cls.base)
           hits == {i \in 1..Len(mro) :
                      name \in AbstractDefs(mro[i]) \cup ConcreteDefs(mro[i])}
       IN IF hits = {} THEN Nowhere
          ELSE mro[CHOOSE i \in hits : \A j \in hits : i <= j]

\* cls.__abstractmethods__ as ABCMeta computes it: the names whose resolved
\* definition is still an abstract one.
abstractmethods(cls) ==
  {name \in MethodNames :
     /\ Resolve(cls, name) \in LibraryClasses
     /\ name \in AbstractDefs(Resolve(cls, name))}

\* A library class used directly is the subclass that supplies nothing.
Bare(k) == [base |-> k, supplies |-> {}]

\* The user subclasses considered: each derives one class of the file and
\* supplies all but at most MaxMissing of the names that class leaves abstract.
Classes ==
  UNION {{[base |-> k, supplies |-> s] :
            s \in {t \in SUBSET abstractmethods(Bare(k)) :
                     Cardinality(abstractmethods(Bare(k)) \ t) <= MaxMissing}} :
         k \in LibraryClasses}

\* ------------------------------------------------- implementers' behaviour
Values == {"None", "v1"}
Errors == {"E1", "E2"}

\* What a hook does when called: return a value or raise an error.
HookBehaviours ==
  {[kind |-> "return", value |-> v] : v \in Values}
    \cup {[kind |-> "raise", value |-> e] : e \in Errors}

NotCalled == [kind |-> "none", value |-> "None"]

\* The operations an implementer's log_run calls, in order.
LogRunImpls ==
  {<<>>, <<"_log_metrics">>, <<"_log_metrics", "_log_params", "_log_model">>}

\* One recorded call: the method entered, its argument, and whether the base
\* class made the call or an implementer's method did.
CallOf(hook, obj, by) == [hook |-> hook, arg |-> obj, by |-> by]

ImplCalls(impl, obj) == [i \in 1..Len(impl) |-> CallOf(impl[i], obj, "impl")]

\* The result of running a __call__ body: the calls made, how it ended
\* (return / raise) with which value, and what the hook it called did.
Result(cs, kind, value, hook) ==
  [calls |-> cs, kind |-> kind, value |-> value, hook |-> hook]

\* `return self.hook(obj)`: the hook's value is returned, its error propagates.
ReturnHook(name, obj, beh) ==
  Result(<<CallOf(name, obj, "base")>>, beh.kind, beh.value, beh)

\* `self.hook(obj)` as a statement, last of the body: the value is dropped and
\* the body falls off its end (None); an error propagates.
StatementHook(name, obj, beh, impl) ==
  Result(<<CallOf(name, obj, "base")>> \o ImplCalls(impl, obj),
         beh.kind,
         IF beh.kind = "raise" THEN beh.value ELSE "None",
         beh)

FallOffEnd == Result(<<>>, "return", "None", NotCalled)

\* ------------------------------------------------------ the __call__ bodies
\* Variants of the bodies below, each with one plausible slip.
ExperimentComponent_call_checked(obj, beh) ==
  IF isinstance(obj, "Experiment")
    THEN ReturnHook("_call_on_experiment", obj, beh)
  ELSE FallOffEnd

HybridComponent_call_else(obj, beh) ==
  IF isinstance(obj, "Experiment")
    THEN ReturnHook("_call_on_experiment", obj, beh)
  ELSE ReturnHook("_call_on_run", obj, beh)

HybridComponent_call_runfirst(obj, beh) ==
  IF isinstance(obj, "Run")
    THEN ReturnHook("_call_on_run", obj, beh)
  ELSE IF isinstance(obj, "Experiment")
    THEN ReturnHook("_call_on_experiment", obj, beh)
  ELSE FallOffEnd

Logger_call_else(obj, beh, impl) ==
  IF isinstance(obj, "Experiment")
    THEN StatementHook("log_experiment", obj, beh, <<>>)
  ELSE StatementHook("log_run", obj, beh, impl)

Logger_call_swallow(obj, beh, impl) ==
  IF isinstance(obj, "Experiment")
    THEN Result(<<CallOf("log_experiment", obj, "base")>>, "return", "None", beh)
  ELSE IF isinstance(obj, "Run")
    THEN Result(<<CallOf("log_run", obj, "base")>> \o ImplCalls(impl, obj),
                "return", "None", beh)
  ELSE FallOffEnd

Logger_call_enforcing(obj, beh, impl) ==
  IF isinstance(obj, "Experiment")
    THEN StatementHook("log_experiment", obj, beh, <<>>)
  ELSE IF isinstance(obj, "Run")
    THEN Result(<<CallOf("log_run", obj, "base"),
                  CallOf("_log_metrics", obj, "base"),
                  CallOf("_log_params", obj, "base"),
                  CallOf("_log_model", obj, "base")>>,
                beh.kind, IF beh.kind = "raise" THEN beh.value ELSE "None", beh)
  ELSE FallOffEnd

ExperimentComponent_call(obj, beh) ==
  ReturnHook("_call_on_experiment", obj, beh)

RunComponent_call(obj, beh) ==
  ReturnHook("_call_on_run", obj, beh)

HybridComponent_call(obj, beh) ==
  IF isinstance(obj, "Experiment")
    THEN ReturnHook("_call_on_experiment", obj, beh)
  ELSE IF isinstance(obj, "Run")
    THEN ReturnHook("_call_on_run", obj, beh)
  ELSE FallOffEnd

Logger_call(obj, beh, impl) ==
  IF isinstance(obj, "Experiment")
    THEN StatementHook("log_experiment", obj, beh, <<>>)
  ELSE IF isinstance(obj, "Run")
    THEN StatementHook("log_run", obj, beh, impl)
  ELSE FallOffEnd

\* instance(obj): run the __call__ the instance's class resolves to.
Call(cls, obj, beh, impl) ==
  CASE Resolve(cls, "__call__") = "ExperimentComponent" -> ExperimentComponent_call(obj, beh)
    [] Resolve(cls, "__call__") = "RunComponent"        -> RunComponent_call(obj, beh)
    [] Resolve(cls, "__call__") = "HybridComponent"     -> HybridComponent_call(obj, beh)
    [] Resolve(cls, "__call__") = "Logger"              -> Logger_call(obj, beh, impl)
    [] OTHER                                            -> FallOffEnd

\* ------------------------------------------------------------- the machine
NoClass == [base |-> "-", supplies |-> {}]

Outcome(op, cls, obj, kind, value, hook) ==
  [op |-> op, target |-> cls, arg |-> obj, kind |-> kind, value |-> value,
   hook |-> hook]

Init ==
  /\ components = {}
  /\ invokes = <<>>
  /\ calls = <<>>
  /\ outcome = Outcome("none", NoClass, NoObject, "return", "None", NotCalled)

\* cls(**kwargs): object creation raises TypeError while the class still has
\* abstract methods; otherwise the instance joins the caller's collection.
Construct(cls) ==
  /\ IF abstractmethods(cls) = {}
       THEN /\ components' = components \cup {cls}
            /\ outcome' = Outcome("construct", cls, NoObject, "return", "instance", NotCalled)
       ELSE /\ components' = components
            /\ outcome' = Outcome("construct", cls, NoObject, "raise", "TypeError", NotCalled)
  /\ UNCHANGED <<invokes, calls>>

\* c(obj) for an instance c of the collection whose __call__ is one of the file.
Invoke(c, obj, beh, impl) ==
  /\ c \in components
  /\ Resolve(c, "__call__") \in LibraryClasses
  /\ LET r == Call(c, obj, beh, impl)
         n == Len(invokes) + 1
     IN /\ invokes' = Append(invokes, [comp |-> c, arg |-> obj])
        /\ calls' = calls \o [i \in 1..Len(r.calls) |->
                                [comp |-> c, hook |-> r.calls[i].hook,
                                 arg |-> r.calls[i].arg, by |-> r.calls[i].by,
                                 during |-> n]]
        /\ outcome' = Outcome("invoke", c, obj, r.kind, r.value, r.hook)
  /\ UNCHANGED components

\* The whole life of a caller: it builds its collection and uses it.
Next ==
  \/ \E cls \in Classes : Construct(cls)
  \/ \E c \in Classes, obj \in Objects, beh \in HookBehaviours, impl \in LogRunImpls :
       Len(invokes) < MaxUses /\ Invoke(c, obj, beh, impl)

Spec == Init /\ [][Next]_vars

\* A caller that has built its collection (one instance of every subclass
\* that can be instantiated) and from then on only invokes.
Instantiable == {cls \in Classes : abstractmethods(cls) = {}}

InitInvoke ==
  /\ components = Instantiable
  /\ invokes = <<>>
  /\ calls = <<>>
  /\ outcome = Outcome("none", NoClass, NoObject, "return", "None", NotCalled)

NextInvoke ==
  \E c \in Classes, obj \in Objects, beh \in HookBehaviours, impl \in LogRunImpls :
    Len(invokes) < MaxInvokes /\ Invoke(c, obj, beh, impl)

SpecInvoke == InitInvoke /\ [][NextInvoke]_vars

\* A caller whose collection holds only the components that dispatch on the
\* type of their argument: a HybridComponent and a Logger.
InitDispatch ==
  /\ components = {cls \in Instantiable : cls.base \in {"HybridComponent", "Logger"}}
  /\ invokes = <<>>
  /\ calls = <<>>
  /\ outcome = Outcome("none", NoClass, NoObject, "return", "None", NotCalled)

NextDispatch ==
  \E c \in Classes, obj \in Objects, beh \in HookBehaviours, impl \in LogRunImpls :
    Len(invokes) < MaxDispatches /\ Invoke(c, obj, beh, impl)

SpecDispatch == InitDispatch /\ [][NextDispatch]_vars

\* ------------------------------------------------ vocabulary of the claims
ExperimentHandlers == {"_call_on_experiment", "log_experiment"}
RunHandlers == {"_call_on_run", "log_run"}
RunSubOperations == {"_log_metrics", "_log_params", "_log_model"}
Dispatchers == {"HybridComponent", "Logger"}

\* The handler the contract names for a dispatching component and an object.
OnExperiment(base) ==
  IF base = "Logger" THEN "log_experiment" ELSE "_call_on_experiment"

OnRun(base) == IF base = "Logger" THEN "log_run" ELSE "_call_on_run"

\* The calls the base class made during the invoke that has just ended.
BaseCallsOfLast ==
  SelectSeq(calls, LAMBDA c : c.during = Len(invokes) /\ c.by = "base")

Invoked(base) == outcome.op = "invoke" /\ outcome.target.base = base

OnlyCall(hook) ==
  /\ Len(BaseCallsOfLast) = 1
  /\ BaseCallsOfLast[1].hook = hook
  /\ BaseCallsOfLast[1].arg = outcome.arg
  /\ BaseCallsOfLast[1].comp = outcome.target

SilentNoOp ==
  /\ Len(BaseCallsOfLast) = 0
  /\ outcome.kind = "return"
  /\ outcome.hook = NotCalled

\* The three cases as the claims state them: an Experiment, a Run, neither.
DispatchAsStated(base) ==
  Invoked(base) =>
    /\ isinstance(outcome.arg, "Experiment") => OnlyCall(OnExperiment(base))
    /\ isinstance(outcome.arg, "Run") => OnlyCall(OnRun(base))
    /\ (~isinstance(outcome.arg, "Experiment") /\ ~isinstance(outcome.arg, "Run"))
         => SilentNoOp

\* The three cases as the code orders them: a Run is tested for only when the
\* object is no Experiment.
DispatchInOrder(base) ==
  Invoked(base) =>
    /\ isinstance(outcome.arg, "Experiment") => OnlyCall(OnExperiment(base))
    /\ (~isinstance(outcome.arg, "Experiment") /\ isinstance(outcome.arg, "Run"))
         => OnlyCall(OnRun(base))
    /\ (~isinstance(outcome.arg, "Experiment") /\ ~isinstance(outcome.arg, "Run"))
         => SilentNoOp

\* ----------------------------------------------------------------- C1
\* C1 as stated: a HybridComponent's invoke(x) calls only onExperiment(x) when
\* x is an Experiment, only onRun(x) when x is a Run, and nothing, returning
\* normally, when x is neither.
C1_AsStated == DispatchAsStated("HybridComponent")

\* C1 amended: a HybridComponent's invoke(x) calls only onExperiment(x) when x
\* is an Experiment, only onRun(x) when x is a Run that is not also an
\* Experiment, and nothing, returning normally, when x is neither.
C1_HybridDispatch == DispatchInOrder("HybridComponent")

C1_Witness ==
  /\ Invoked("HybridComponent")
  /\ outcome.arg = "int"
  /\ \E i \in 1..Len(invokes) :
       invokes[i].comp.base = "HybridComponent" /\ invokes[i].arg = "run"

\* ----------------------------------------------------------------- C2
\* C2 as stated: a Logger's invoke(x) calls only logExperiment(x) when x is an
\* Experiment, only logRun(x) when x is a Run, and nothing, without raising,
\* when x is neither.
C2_AsStated == DispatchAsStated("Logger")

\* C2 amended: a Logger's invoke(x) calls only logExperiment(x) when x is an
\* Experiment, only logRun(x) when x is a Run that is not also an Experiment,
\* and nothing, without raising, when x is neither.
C2_LoggerDispatch == DispatchInOrder("Logger")

C2_Witness ==
  /\ Invoked("Logger")
  /\ outcome.arg = "int"
  /\ \E i \in 1..Len(invokes) :
       invokes[i].comp.base = "Logger" /\ invokes[i].arg = "exp"

\* ----------------------------------------------------------------- C3
\* What the contract requires a concrete subtype of each class to supply.
ContractRequired(base) ==
  CASE base = "Component"           -> {"__call__"}
    [] base = "ExperimentComponent" -> {"_call_on_experiment"}
    [] base = "RunComponent"        -> {"_call_on_run"}
    [] base = "HybridComponent"     -> {"_call_on_experiment", "_call_on_run"}
    [] base = "Logger"              -> {"__init__", "log_experiment", "log_run",
                                        "_log_metrics", "_log_params", "_log_model"}
    [] OTHER                        -> {}

Conforms(cls) == ContractRequired(cls.base) \subseteq cls.supplies

\* C3: instantiating a subtype that leaves a required capability unimplemented
\* fails at construction time with TypeError and yields no instance, so every
\* instance of the collection, and every instance ever invoked, supplies all
\* its class requires; a subtype that supplies them all is constructed.
C3_AbstractEnforced ==
  /\ \A c \in components : Conforms(c)
  /\ \A i \in 1..Len(invokes) : Conforms(invokes[i].comp)
  /\ outcome.op = "construct" =>
       IF Conforms(outcome.target)
         THEN outcome.kind = "return" /\ outcome.target \in components
         ELSE /\ outcome.kind = "raise"
              /\ outcome.value = "TypeError"
              /\ outcome.target \notin components

C3_Witness ==
  /\ outcome.op = "construct"
  /\ outcome.kind = "raise"
  /\ outcome.target.base = "Logger"
  /\ ContractRequired("Logger") \ outcome.target.supplies = {"__init__"}
  /\ \E c \in components : c.base = "Logger"
  /\ \E c \in components : c.base = "HybridComponent"
  /\ Len(invokes) >= 1

\* ----------------------------------------------------------------- C4
\* Every call made during the invoke that has just ended.
CallsOfLast == SelectSeq(calls, LAMBDA c : c.during = Len(invokes))

\* C4: ExperimentComponent.invoke(x) calls onExperiment exactly once with x
\* itself, and RunComponent.invoke(x) calls onRun exactly once with x itself,
\* whatever the type of x, and no other hook is called.
C4_UnconditionalDelegation ==
  /\ Invoked("ExperimentComponent") =>
       OnlyCall("_call_on_experiment") /\ Len(CallsOfLast) = 1
  /\ Invoked("RunComponent") =>
       OnlyCall("_call_on_run") /\ Len(CallsOfLast) = 1

C4_Witness ==
  /\ Invoked("ExperimentComponent")
  /\ outcome.arg = "int"
  /\ \E i \in 1..Len(invokes) :
       invokes[i].comp.base = "RunComponent" /\ invokes[i].arg = "exp"

\* ----------------------------------------------------------------- C5
TypedCall(c) ==
  /\ c.hook \in ExperimentHandlers => isinstance(c.arg, "Experiment")
  /\ c.hook \in RunHandlers => isinstance(c.arg, "Run")

\* C5 as stated: whatever components of the collection have been invoked, an
\* Experiment handler has only ever been called with an Experiment and a Run
\* handler only with a Run.
C5_AsStated == \A i \in 1..Len(calls) : TypedCall(calls[i])

\* C5 amended: a handler called by a HybridComponent or a Logger has only ever
\* been called with an object of its type; an ExperimentComponent or a
\* RunComponent calls its one hook with whatever object its invoke received.
C5_RoutedByDispatchers ==
  \A i \in 1..Len(calls) :
    IF calls[i].comp.base \in Dispatchers
      THEN TypedCall(calls[i])
      ELSE /\ calls[i].arg = invokes[calls[i].during].arg
           /\ calls[i].hook = IF calls[i].comp.base = "ExperimentComponent"
                                THEN "_call_on_experiment" ELSE "_call_on_run"

C5_Witness ==
  /\ \E i \in 1..Len(calls) :
       /\ calls[i].comp.base = "ExperimentComponent"
       /\ calls[i].hook = "_call_on_experiment"
       /\ calls[i].arg = "run"
  /\ \E i \in 1..Len(calls) :
       /\ calls[i].comp.base = "HybridComponent"
       /\ calls[i].hook = "_call_on_run"
       /\ calls[i].arg = "run"

\* ----------------------------------------------------------------- C6
\* C6: every invoke that returns returns None, whatever its hook returned.
C6_ReturnsNone ==
  (outcome.op = "invoke" /\ outcome.kind = "return") => outcome.value = "None"

\* ----------------------------------------------------------------- C7
\* C7: when the hook called by an invoke raises E, the invoke ends by raising
\* exactly E and the base class calls nothing after that hook; an invoke
\* raises only what its hook raised.
C7_ErrorPropagates ==
  outcome.op = "invoke" =>
    /\ outcome.hook.kind = "raise" =>
         /\ outcome.kind = "raise"
         /\ outcome.value = outcome.hook.value
         /\ Len(BaseCallsOfLast) = 1
    /\ outcome.kind = "raise" => outcome.hook.kind = "raise"

C7_Witness ==
  /\ Invoked("Logger")
  /\ outcome.arg = "run"
  /\ outcome.kind = "raise"
  /\ outcome.value = "E2"
  /\ \E i \in 1..Len(invokes) : invokes[i].comp.base = "ExperimentComponent"

\* ----------------------------------------------------------------- C8
SubOperationsOfLast ==
  SelectSeq(calls, LAMBDA c : c.during = Len(invokes) /\ c.hook \in RunSubOperations)

\* C8: logMetrics, logParams and logModel are never called by Logger.invoke
\* itself, only from inside an implementer's logRun; an invoke on a Run whose
\* logRun calls none of them and returns completes without error.
C8_ConventionNotEnforced ==
  /\ \A i \in 1..Len(calls) :
       calls[i].hook \in RunSubOperations =>
         /\ calls[i].by = "impl"
         /\ \E j \in 1..(i - 1) :
              /\ calls[j].during = calls[i].during
              /\ calls[j].hook = "log_run"
              /\ calls[j].by = "base"
  /\ ( /\ Invoked("Logger")
       /\ outcome.hook.kind = "return"
       /\ Len(SubOperationsOfLast) = 0 ) => outcome.kind = "return"

C8_Witness ==
  /\ Invoked("Logger")
  /\ outcome.arg = "run"
  /\ OnlyCall("log_run")
  /\ Len(SubOperationsOfLast) = 0
  /\ outcome.kind = "return"
  /\ \E i \in 1..Len(calls) : calls[i].hook = "_log_model"

\* ----------------------------------------------------------------- C9
Handlers == ExperimentHandlers \cup RunHandlers

\* The invokes of dispatching components on an Experiment or a Run, and the
\* handler calls of dispatching components, each in order of occurrence.
DispatchingInvokes ==
  SelectSeq(invokes, LAMBDA v : v.comp.base \in Dispatchers /\ TypesOf(v.arg) # {})

HandlerCalls ==
  SelectSeq(calls, LAMBDA c : c.comp.base \in Dispatchers /\ c.hook \in Handlers)

\* The handler as a function of the component's class and the object's types.
ExpectedHandler(base, types) ==
  IF "Experiment" \in types THEN OnExperiment(base) ELSE OnRun(base)

\* C9: the handler calls of HybridComponent and Logger instances are, in the
\* same order, the invokes whose argument is an Experiment or a Run: one call
\* per such invoke, made during that invoke, on the handler that the type of
\* that invoke's argument alone determines.
C9_StatelessInOrder ==
  /\ Len(HandlerCalls) = Len(DispatchingInvokes)
  /\ \A i \in 1..Len(HandlerCalls) :
       /\ i <= Len(DispatchingInvokes)
       /\ HandlerCalls[i].comp = DispatchingInvokes[i].comp
       /\ HandlerCalls[i].arg = DispatchingInvokes[i].arg
       /\ invokes[HandlerCalls[i].during] = DispatchingInvokes[i]
       /\ HandlerCalls[i].hook =
            ExpectedHandler(HandlerCalls[i].comp.base, TypesOf(HandlerCalls[i].arg))
  /\ \A i, j \in 1..Len(HandlerCalls) :
       i < j => HandlerCalls[i].during < HandlerCalls[j].during

C9_Witness ==
  /\ Len(invokes) = 3
  /\ invokes[1].comp.base = "Logger" /\ invokes[1].arg = "run"
  /\ invokes[2].comp.base = "HybridComponent" /\ invokes[2].arg = "int"
  /\ invokes[3].comp.base = "Logger" /\ invokes[3].arg = "exp"
  /\ Len(HandlerCalls) = 2

\* ----------------------------------------------------------------- C10
HandlerCallsDuring(n) ==
  SelectSeq(calls, LAMBDA c : c.during = n /\ c.hook \in Handlers)

\* C10: every invoke on a HybridComponent or a Logger calls at most one
\* handler, and an object that is both an Experiment and a Run goes to the
\* Experiment handler only.
C10_ExperimentFirst ==
  \A n \in 1..Len(invokes) :
    invokes[n].comp.base \in Dispatchers =>
      /\ Len(HandlerCallsDuring(n)) <= 1
      /\ TypesOf(invokes[n].arg) = {"Experiment", "Run"} =>
           /\ Len(HandlerCallsDuring(n)) = 1
           /\ HandlerCallsDuring(n)[1].hook = OnExperiment(invokes[n].comp.base)

C10_Witness ==
  /\ Invoked("HybridComponent")
  /\ outcome.arg = "exprun"
  /\ \E i \in 1..Len(invokes) :
       invokes[i].comp.base = "Logger" /\ invokes[i].arg = "exprun"

====
